---- MODULE Spec2Model ----
(***************************************************************************)
(* Vending machine: the cart / inventory consistency engine of project.py. *)
(*                                                                         *)
(* The argument based functions (add_to_cart_arg, adjust_quantity_arg,     *)
(* adjust_item_price_arg, manage_cart_arg, confirm_purchase_arg) are       *)
(* modelled as operators over a cart and an inventory that return the      *)
(* mutated structures and the error raised, and one action per function    *)
(* applies them to the state.  The inventory is a Python dict, modelled as *)
(* a function from the item codes present to records; the cart is a Python *)
(* dict whose iteration order (insertion order) is observable through the  *)
(* fail-fast validation loop of confirm_purchase_arg, so it is modelled as *)
(* a sequence of entries in insertion order.  Prices are floats in the     *)
(* source and are modelled as integers (a price unit).                     *)
(***************************************************************************)
EXTENDS Integers, Sequences, FiniteSets, TLC

\* ---------------------------------------------------------------- bounds
\* Largest quantity a caller passes or an item is stocked with.
MaxQty == 2
\* Most purchase sessions one run of the whole shell opens.
MaxSessions == 1

\* Item codes in play and the prices a caller may pass (0 is the rejected one).
Codes == {1, 2}
Prices == {1, 2}
QtyArgs == -1 .. MaxQty
PriceArgs == {0} \cup Prices
\* manage_cart's action tags and its optional new_quantity: None is the
\* empty sequence, a given quantity n is <<n>>
Actions == {"remove", "adjust", "invalid_action"}
OptQtyArgs == {<<>>} \cup {<<n>> : n \in QtyArgs}

\* Names of the stocked items, fixed per code (test_project.py fixtures).
ItemName(code) == IF code = 1 THEN "Water" ELSE "Soda"

\* ------------------------------------------------------------ error kinds
\* KeyError is the NotFound kind; ValueError is InvalidArgument or
\* CapacityExceeded, told apart by the raise statement that produced it.
Ok == "ok"
NotFound == "NotFound"
InvalidArgument == "InvalidArgument"
CapacityExceeded == "CapacityExceeded"

VARIABLES
    inventory,   \* global inventory dict: item code -> [Name, Price, Quantity]
    user_cart,   \* the session's cart, entries in dict insertion order
    op,          \* the function last called
    before,      \* the cart and the inventory that call was handed
    result,      \* what that call raised, or Ok
    pc,          \* where the interactive shell is: main, purchase_items, exited
    session,     \* the purchase session's stage, "none" before the first one
    cart_no,     \* how many cart dicts purchase_items has created so far
    saved,       \* the inventory snapshot in the inventory file
    stocked,     \* the inventory the machine started with
    sold,        \* per code, the units of all carts whose purchase went through
    retval       \* <<v>> when the last call returned the string v, else <<>>

vars == <<inventory, user_cart, op, before, result, pc, session, cart_no, saved,
          stocked, sold, retval>>

\* ------------------------------------------------------- dict operations
\* `code in user_cart`
InCart(cart, code) == \E i \in 1 .. Len(cart) : cart[i].code = code

\* position of the entry of `code` in the cart's iteration order
CartIdx(cart, code) == CHOOSE i \in 1 .. Len(cart) : cart[i].code = code

\* `user_cart.get(code, {}).get('Quantity', 0)`
CartQty(cart, code) == IF InCart(cart, code) THEN cart[CartIdx(cart, code)].Quantity ELSE 0

\* a delete that empties the whole cart
CartDel_All(cart, code) == <<>>

\* `del user_cart[code]`: the other entries keep their order
CartDel(cart, code) == SelectSeq(cart, LAMBDA e : e.code # code)

\* the codes of a cart
CartCodes(cart) == {cart[i].code : i \in 1 .. Len(cart)}

\* an outcome of a call: the two structures afterwards and what was raised
Outcome(cart, inv, raised) == [user_cart |-> cart, inventory_ref |-> inv, raised |-> raised]

\* a positivity test that lets 0 through
NotPositive_AllowingZero(quantity) == quantity < 0

\* lines 46 and 98: `quantity <= 0`
NotPositive(quantity) == quantity <= 0

\* ------------------------------------------------------------ add_to_cart
\* a stock test that forgets what the cart already holds
NotEnoughForAdd_IgnoringCart(already_in_cart, quantity, available_quantity) ==
    quantity > available_quantity

\* line 50: the stock test counts what the cart already holds of the item
NotEnoughForAdd(already_in_cart, quantity, available_quantity) ==
    already_in_cart + quantity > available_quantity

\* an add that overwrites the quantity of an existing entry
CartAdd_Overwriting(cart, inv, item_code, quantity) ==
    IF InCart(cart, item_code)
    THEN [cart EXCEPT ![CartIdx(cart, item_code)].Quantity = quantity]
    ELSE Append(cart, [code |-> item_code,
                       Name |-> inv[item_code].Name,
                       Price |-> inv[item_code].Price,
                       Quantity |-> quantity])

\* an add that takes the current inventory price again when it accumulates
CartAdd_Repricing(cart, inv, item_code, quantity) ==
    IF InCart(cart, item_code)
    THEN [cart EXCEPT ![CartIdx(cart, item_code)].Quantity = @ + quantity,
                      ![CartIdx(cart, item_code)].Price = inv[item_code].Price]
    ELSE Append(cart, [code |-> item_code,
                       Name |-> inv[item_code].Name,
                       Price |-> inv[item_code].Price,
                       Quantity |-> quantity])

\* lines 52-59: accumulate on an existing entry, else insert a snapshot of
\* the inventory record's name and price at the end of the dict
CartAdd(cart, inv, item_code, quantity) ==
    IF InCart(cart, item_code)
    THEN [cart EXCEPT ![CartIdx(cart, item_code)].Quantity = @ + quantity]
    ELSE Append(cart, [code |-> item_code,
                       Name |-> inv[item_code].Name,
                       Price |-> inv[item_code].Price,
                       Quantity |-> quantity])

\* an add that tests the quantity before it looks the item up
add_to_cart_arg_QuantityFirst(cart, inv, item_code, quantity) ==
    IF NotPositive(quantity)
    THEN Outcome(cart, inv, InvalidArgument)
    ELSE IF item_code \notin DOMAIN inv
    THEN Outcome(cart, inv, NotFound)
    ELSE LET available_quantity == inv[item_code].Quantity
             already_in_cart == CartQty(cart, item_code)
         IN  IF NotEnoughForAdd(already_in_cart, quantity, available_quantity)
             THEN Outcome(cart, inv, CapacityExceeded)
             ELSE Outcome(CartAdd(cart, inv, item_code, quantity), inv, Ok)

\* an add that takes the quantity out of the inventory at once
add_to_cart_arg_Reserving(cart, inv, item_code, quantity) ==
    IF item_code \notin DOMAIN inv
    THEN Outcome(cart, inv, NotFound)
    ELSE IF NotPositive(quantity)
    THEN Outcome(cart, inv, InvalidArgument)
    ELSE LET available_quantity == inv[item_code].Quantity
             already_in_cart == CartQty(cart, item_code)
         IN  IF NotEnoughForAdd(already_in_cart, quantity, available_quantity)
             THEN Outcome(cart, inv, CapacityExceeded)
             ELSE Outcome(CartAdd(cart, inv, item_code, quantity),
                          [inv EXCEPT ![item_code].Quantity = @ - quantity], Ok)

\* lines 43-59
add_to_cart_arg(cart, inv, item_code, quantity) ==
    IF item_code \notin DOMAIN inv
    THEN Outcome(cart, inv, NotFound)
    ELSE IF NotPositive(quantity)
    THEN Outcome(cart, inv, InvalidArgument)
    ELSE LET available_quantity == inv[item_code].Quantity
             already_in_cart == CartQty(cart, item_code)
         IN  IF NotEnoughForAdd(already_in_cart, quantity, available_quantity)
             THEN Outcome(cart, inv, CapacityExceeded)
             ELSE Outcome(CartAdd(cart, inv, item_code, quantity), inv, Ok)

\* ------------------------------------------------- adjust_quantity / price
\* a quantity test that lets negative quantities through
BadQuantity_Never(new_quantity) == FALSE

\* line 69: the rejected quantities
BadQuantity(new_quantity) == new_quantity < 0

\* an adjust that adds the new quantity to the stocked one
adjust_quantity_arg_Delta(inv, item_code, new_quantity) ==
    IF item_code \notin DOMAIN inv
    THEN [inventory_ref |-> inv, raised |-> NotFound]
    ELSE IF BadQuantity(new_quantity)
    THEN [inventory_ref |-> inv, raised |-> InvalidArgument]
    ELSE [inventory_ref |-> [inv EXCEPT ![item_code].Quantity = @ + new_quantity],
          raised |-> Ok]

adjust_quantity_arg(inv, item_code, new_quantity) ==
    IF item_code \notin DOMAIN inv
    THEN [inventory_ref |-> inv, raised |-> NotFound]
    ELSE IF BadQuantity(new_quantity)
    THEN [inventory_ref |-> inv, raised |-> InvalidArgument]
    ELSE [inventory_ref |-> [inv EXCEPT ![item_code].Quantity = new_quantity],
          raised |-> Ok]

\* a price adjust that lets the price 0 through
adjust_item_price_arg_AllowingZero(inv, item_code, new_price) ==
    IF item_code \notin DOMAIN inv
    THEN [inventory_ref |-> inv, raised |-> NotFound]
    ELSE IF new_price < 0
    THEN [inventory_ref |-> inv, raised |-> InvalidArgument]
    ELSE [inventory_ref |-> [inv EXCEPT ![item_code].Price = new_price],
          raised |-> Ok]

adjust_item_price_arg(inv, item_code, new_price) ==
    IF item_code \notin DOMAIN inv
    THEN [inventory_ref |-> inv, raised |-> NotFound]
    ELSE IF new_price <= 0
    THEN [inventory_ref |-> inv, raised |-> InvalidArgument]
    ELSE [inventory_ref |-> [inv EXCEPT ![item_code].Price = new_price],
          raised |-> Ok]

\* ------------------------------------------------------------ manage_cart
\* line 100: an item missing from the inventory has 0 available
AvailableFor(inv, item_code) ==
    IF item_code \in DOMAIN inv THEN inv[item_code].Quantity ELSE 0

\* an adjust that stores the new quantity before it tests the stock
manage_cart_arg_StoringFirst(cart, inv, item_code, action, new_quantity) ==
    IF ~InCart(cart, item_code)
    THEN Outcome(cart, inv, NotFound)
    ELSE IF action = "remove"
    THEN Outcome(CartDel(cart, item_code), inv, Ok)
    ELSE IF action = "adjust"
    THEN IF new_quantity = <<>>
         THEN Outcome(cart, inv, InvalidArgument)
         ELSE IF NotPositive(new_quantity[1])
         THEN Outcome(cart, inv, InvalidArgument)
         ELSE LET stored == [cart EXCEPT ![CartIdx(cart, item_code)].Quantity =
                                             new_quantity[1]]
              IN  IF new_quantity[1] > AvailableFor(inv, item_code)
                  THEN Outcome(stored, inv, CapacityExceeded)
                  ELSE Outcome(stored, inv, Ok)
    ELSE Outcome(cart, inv, InvalidArgument)

\* an adjust that adds the new quantity to the one the entry holds
manage_cart_arg_Delta(cart, inv, item_code, action, new_quantity) ==
    IF ~InCart(cart, item_code)
    THEN Outcome(cart, inv, NotFound)
    ELSE IF action = "remove"
    THEN Outcome(CartDel(cart, item_code), inv, Ok)
    ELSE IF action = "adjust"
    THEN IF new_quantity = <<>>
         THEN Outcome(cart, inv, InvalidArgument)
         ELSE IF NotPositive(new_quantity[1])
         THEN Outcome(cart, inv, InvalidArgument)
         ELSE IF new_quantity[1] > AvailableFor(inv, item_code)
         THEN Outcome(cart, inv, CapacityExceeded)
         ELSE Outcome([cart EXCEPT ![CartIdx(cart, item_code)].Quantity =
                                       @ + new_quantity[1]],
                      inv, Ok)
    ELSE Outcome(cart, inv, InvalidArgument)

\* an adjust that tests the action before it looks the item up in the cart
manage_cart_arg_ActionFirst(cart, inv, item_code, action, new_quantity) ==
    IF action \notin {"remove", "adjust"}
    THEN Outcome(cart, inv, InvalidArgument)
    ELSE IF ~InCart(cart, item_code)
    THEN Outcome(cart, inv, NotFound)
    ELSE IF action = "remove"
    THEN Outcome(CartDel(cart, item_code), inv, Ok)
    ELSE IF new_quantity = <<>>
    THEN Outcome(cart, inv, InvalidArgument)
    ELSE IF NotPositive(new_quantity[1])
    THEN Outcome(cart, inv, InvalidArgument)
    ELSE IF new_quantity[1] > AvailableFor(inv, item_code)
    THEN Outcome(cart, inv, CapacityExceeded)
    ELSE Outcome([cart EXCEPT ![CartIdx(cart, item_code)].Quantity = new_quantity[1]],
                 inv, Ok)

manage_cart_arg(cart, inv, item_code, action, new_quantity) ==
    IF ~InCart(cart, item_code)
    THEN Outcome(cart, inv, NotFound)
    ELSE IF action = "remove"
    THEN Outcome(CartDel(cart, item_code), inv, Ok)
    ELSE IF action = "adjust"
    THEN IF new_quantity = <<>>
         THEN Outcome(cart, inv, InvalidArgument)
         ELSE IF NotPositive(new_quantity[1])
         THEN Outcome(cart, inv, InvalidArgument)
         ELSE IF new_quantity[1] > AvailableFor(inv, item_code)
         THEN Outcome(cart, inv, CapacityExceeded)
         ELSE Outcome([cart EXCEPT ![CartIdx(cart, item_code)].Quantity = new_quantity[1]],
                      inv, Ok)
    ELSE Outcome(cart, inv, InvalidArgument)

\* ------------------------------------------------------- confirm_purchase
\* a validation that looks for missing codes in the whole cart first and
\* for short stock afterwards
ValidateFrom_MissingFirst(cart, inv, i) ==
    IF \E k \in i .. Len(cart) : cart[k].code \notin DOMAIN inv THEN NotFound
    ELSE IF \E k \in i .. Len(cart) : cart[k].Quantity > inv[cart[k].code].Quantity
    THEN CapacityExceeded
    ELSE Ok

RECURSIVE ValidateFrom(_, _, _)
\* lines 115-119: the validation loop from entry i on, in iteration order;
\* the first offending entry decides what is raised
ValidateFrom(cart, inv, i) ==
    IF i > Len(cart) THEN Ok
    ELSE IF cart[i].code \notin DOMAIN inv THEN NotFound
    ELSE IF cart[i].Quantity > inv[cart[i].code].Quantity THEN CapacityExceeded
    ELSE ValidateFrom(cart, inv, i + 1)

\* a decrement loop that stops after one entry
DecrementFrom_OneEntry(cart, inv, i) ==
    IF i > Len(cart) THEN inv
    ELSE [inv EXCEPT ![cart[i].code].Quantity = @ - cart[i].Quantity]

RECURSIVE DecrementFrom_ByOne(_, _, _)
\* a decrement loop that takes one unit per entry
DecrementFrom_ByOne(cart, inv, i) ==
    IF i > Len(cart) THEN inv
    ELSE DecrementFrom_ByOne(cart,
                             [inv EXCEPT ![cart[i].code].Quantity = @ - 1],
                             i + 1)

RECURSIVE DecrementFrom(_, _, _)
\* lines 121-122: the decrement loop from entry i on
DecrementFrom(cart, inv, i) ==
    IF i > Len(cart) THEN inv
    ELSE DecrementFrom(cart,
                       [inv EXCEPT ![cart[i].code].Quantity = @ - cart[i].Quantity],
                       i + 1)

\* a purchase that leaves the records at quantity 0 where they are
Sweep_Never(inv) == inv

\* a sweep that tests for quantities below 0
Sweep_BelowZero(inv) ==
    LET to_remove == {code \in DOMAIN inv : inv[code].Quantity < 0}
    IN  [code \in DOMAIN inv \ to_remove |-> inv[code]]

\* lines 124-126: every record of the inventory at quantity 0 is deleted
Sweep(inv) ==
    LET to_remove == {code \in DOMAIN inv : inv[code].Quantity = 0}
    IN  [code \in DOMAIN inv \ to_remove |-> inv[code]]

\* a test for the empty cart that never fires
EmptyCart_Never(cart) == FALSE

\* line 113: `not user_cart`
EmptyCart(cart) == Len(cart) = 0

\* a purchase that leaves the cart as it was
Cleared_Not(cart) == cart

\* line 129: user_cart.clear()
Cleared(cart) == <<>>

RECURSIVE OnePassFrom(_, _, _)
\* one loop that validates an entry and decrements it at once
OnePassFrom(cart, inv, i) ==
    IF i > Len(cart) THEN [inventory_ref |-> inv, raised |-> Ok]
    ELSE IF cart[i].code \notin DOMAIN inv
    THEN [inventory_ref |-> inv, raised |-> NotFound]
    ELSE IF cart[i].Quantity > inv[cart[i].code].Quantity
    THEN [inventory_ref |-> inv, raised |-> CapacityExceeded]
    ELSE OnePassFrom(cart,
                     [inv EXCEPT ![cart[i].code].Quantity = @ - cart[i].Quantity],
                     i + 1)

\* a purchase that validates and decrements in the same loop
confirm_purchase_arg_OnePass(cart, inv) ==
    IF EmptyCart(cart)
    THEN Outcome(cart, inv, InvalidArgument)
    ELSE LET pass == OnePassFrom(cart, inv, 1)
         IN  IF pass.raised # Ok
             THEN Outcome(cart, pass.inventory_ref, pass.raised)
             ELSE Outcome(Cleared(cart), Sweep(pass.inventory_ref), Ok)

\* lines 112-130: validate the whole cart, then decrement, sweep and clear
confirm_purchase_arg(cart, inv) ==
    IF EmptyCart(cart)
    THEN Outcome(cart, inv, InvalidArgument)
    ELSE LET checked == ValidateFrom(cart, inv, 1)
         IN  IF checked # Ok
             THEN Outcome(cart, inv, checked)
             ELSE Outcome(Cleared(cart), Sweep(DecrementFrom(cart, inv, 1)), Ok)

\* what uuid.uuid4() can be printed as: 36 characters, hyphens at 9, 14, 19
\* and 24, the version digit 4 at 15, hexadecimal digits elsewhere
HexDigits == {"0", "f"}
Uuids ==
    {[i \in 1 .. 36 |-> IF i \in {9, 14, 19, 24} THEN "-"
                        ELSE IF i = 15 THEN "4"
                        ELSE IF i % 2 = 0 THEN d ELSE e] : d, e \in HexDigits}

\* an identifier that is the whole printed uuid
transaction_id_Whole(uuid4) == uuid4

\* line 128: str(uuid.uuid4())[:8]
transaction_id(uuid4) == SubSeq(uuid4, 1, 8)

\* ----------------------------------------------------------- remove_items
\* lines 432-436: the owner deletes a record; a code that is not in the
\* inventory is asked for again (line 438), which changes nothing
remove_items(inv, remove_item_code) ==
    [code \in DOMAIN inv \ {remove_item_code} |-> inv[code]]

\* bookkeeping of a call: which function it was and what it was handed
Noted(name) ==
    /\ op' = name
    /\ before' = [user_cart |-> user_cart, inventory_ref |-> inventory]
    /\ retval' = <<>>

\* a call of an argument based function, made outside the interactive shell
Called(name) ==
    /\ Noted(name)
    /\ UNCHANGED <<pc, session, cart_no, saved>>

\* ------------------------------------------------------------ item names
\* The string functions work on the characters of a name: Chars spells a
\* name of the inventory, Spelt is the name that a spelling is.
Chars(name) ==
    CASE name = "Water" -> <<"W", "a", "t", "e", "r">>
      [] name = "Soda" -> <<"S", "o", "d", "a">>
      [] name = "Tea" -> <<"T", "e", "a">>

Spelt(spelling) ==
    CHOOSE name \in {"Water", "Soda", "Tea"} : Chars(name) = spelling

\* the letters the names here are made of, small and capital
Lowers == <<"a", "d", "e", "o", "r", "s", "t", "w">>
Uppers == <<"A", "D", "E", "O", "R", "S", "T", "W">>

IsLetter(ch) == \E i \in 1 .. Len(Lowers) : ch = Lowers[i] \/ ch = Uppers[i]

\* one character of str.lower() and of str.upper()
LowerOf(ch) ==
    IF \E i \in 1 .. Len(Uppers) : ch = Uppers[i]
    THEN Lowers[CHOOSE i \in 1 .. Len(Uppers) : ch = Uppers[i]]
    ELSE ch
UpperOf(ch) ==
    IF \E i \in 1 .. Len(Lowers) : ch = Lowers[i]
    THEN Uppers[CHOOSE i \in 1 .. Len(Lowers) : ch = Lowers[i]]
    ELSE ch

\* str.lower(), line 323
lower(name) == [i \in 1 .. Len(name) |-> LowerOf(name[i])]

\* str.title(), line 315: a letter that starts the string or follows a
\* character that is no letter becomes a capital, every other letter small
title(name) ==
    [i \in 1 .. Len(name) |->
        IF i = 1 \/ ~IsLetter(name[i - 1]) THEN UpperOf(name[i]) ELSE LowerOf(name[i])]

\* str.strip(), line 315: blanks at both ends go
RECURSIVE strip(_)
strip(name) ==
    IF Len(name) = 0 THEN name
    ELSE IF Head(name) = " " THEN strip(Tail(name))
    ELSE IF name[Len(name)] = " " THEN strip(SubSeq(name, 1, Len(name) - 1))
    ELSE name

\* line 318: not empty, at least one letter, and only letters, digits,
\* blanks, hyphens, ampersands and apostrophes
ValidName(name) ==
    /\ Len(name) > 0
    /\ \E i \in 1 .. Len(name) : IsLetter(name[i])
    /\ \A i \in 1 .. Len(name) :
          IsLetter(name[i]) \/ name[i] \in {"0", " ", "-", "&", "'"}

\* a test for a taken name that makes only the typed name small
NameTaken_HalfLowered(inv, name) ==
    \E code \in DOMAIN inv : Chars(inv[code].Name) = lower(name)

\* line 323: some record has the name, capitals and small letters alike
NameTaken(inv, name) ==
    \E code \in DOMAIN inv : lower(Chars(inv[code].Name)) = lower(name)

\* what the owner types for a name
RawNames ==
    {<<"s", "o", "d", "a">>, <<" ", "S", "O", "d", "A", " ">>, <<"t", "E", "a">>,
     <<"-", "0">>}

\* ------------------------------------------------- the interactive shell
\* a prompt that lets 0 through
PositiveArgs_WithZero == 0 .. MaxQty

\* input_positive_integer, lines 140-145: what a prompt for a positive
\* integer can return
PositiveArgs == 1 .. MaxQty

\* lines 564-589, one round of prompts: an unknown code and a quantity over
\* what is left are asked again or given up, and leave the cart as it is
add_to_cart(cart, inv, user_item_code, quantity) ==
    IF user_item_code \notin DOMAIN inv
    THEN Outcome(cart, inv, NotFound)
    ELSE LET available_quantity == inv[user_item_code].Quantity
             already_in_cart == CartQty(cart, user_item_code)
         IN  IF quantity + already_in_cart > available_quantity
             THEN Outcome(cart, inv, CapacityExceeded)
             ELSE Outcome(CartAdd(cart, inv, user_item_code, quantity), inv, Ok)

\* a manage that sets any quantity asked for
manage_cart_Unchecked(cart, inv, manage_item_code, manage_choice, new_qty) ==
    IF ~InCart(cart, manage_item_code)
    THEN Outcome(cart, inv, NotFound)
    ELSE IF manage_choice = 1
    THEN Outcome(CartDel(cart, manage_item_code), inv, Ok)
    ELSE Outcome([cart EXCEPT ![CartIdx(cart, manage_item_code)].Quantity = new_qty],
                 inv, Ok)

\* lines 618-661, one round of prompts: choice 1 removes the entry, choice 2
\* sets its quantity if the inventory holds that much
manage_cart(cart, inv, manage_item_code, manage_choice, new_qty) ==
    IF ~InCart(cart, manage_item_code)
    THEN Outcome(cart, inv, NotFound)
    ELSE IF manage_choice = 1
    THEN Outcome(CartDel(cart, manage_item_code), inv, Ok)
    ELSE LET available_quantity == inv[manage_item_code].Quantity
         IN  IF new_qty > available_quantity
             THEN Outcome(cart, inv, CapacityExceeded)
             ELSE Outcome([cart EXCEPT ![CartIdx(cart, manage_item_code)].Quantity
                                           = new_qty],
                          inv, Ok)

RECURSIVE TakeOutFrom_Keeping(_, _, _)
\* a purchase that keeps the records it sells out
TakeOutFrom_Keeping(cart, inv, i) ==
    IF i > Len(cart)
    THEN inv
    ELSE TakeOutFrom_Keeping(cart,
                             [inv EXCEPT ![cart[i].code].Quantity
                                             = @ - cart[i].Quantity],
                             i + 1)

\* lines 697-701: each entry is taken out of the inventory without a test,
\* and a record that reaches exactly 0 is deleted at once
RECURSIVE TakeOutFrom(_, _, _)
TakeOutFrom(cart, inv, i) ==
    IF i > Len(cart)
    THEN inv
    ELSE LET code == cart[i].code
             left == inv[code].Quantity - cart[i].Quantity
         IN  TakeOutFrom(cart,
                         IF left = 0
                         THEN [c \in DOMAIN inv \ {code} |-> inv[c]]
                         ELSE [inv EXCEPT ![code].Quantity = left],
                         i + 1)

\* lines 667-711: the answer y takes the cart out of the inventory, clears
\* the cart and returns True; an empty cart and the answer n return False
confirm_purchase(cart, inv, confirm) ==
    IF Len(cart) = 0 \/ confirm # "y"
    THEN [user_cart |-> cart, inventory_ref |-> inv, returned |-> FALSE]
    ELSE [user_cart |-> <<>>, inventory_ref |-> TakeOutFrom(cart, inv, 1),
          returned |-> TRUE]

\* a purchase menu that goes on with the same cart after a purchase
AfterConfirm_Staying(returned) == "purchase_items"

\* lines 544-546: purchase_items returns to main after a successful confirm
AfterConfirm(returned) == IF returned THEN "main" ELSE "purchase_items"

\* main, lines 170-177, and purchase_items, lines 496-504: choice 2 of the
\* main menu opens a session with a new empty cart, unless nothing is stocked
PurchaseItems ==
    /\ pc = "main"
    /\ IF DOMAIN inventory = {}
       THEN UNCHANGED <<user_cart, pc, session, cart_no>>
       ELSE /\ user_cart' = <<>>
            /\ pc' = "purchase_items"
            /\ session' = "Empty"
            /\ cart_no' = cart_no + 1
    /\ result' = Ok
    /\ UNCHANGED <<inventory, saved>>
    /\ Noted("purchase_items")

\* purchase_items, choice 1 (lines 514-522) and the offer made on an empty
\* cart (lines 526-535)
ShellAddToCart(user_item_code, quantity) ==
    /\ pc = "purchase_items"
    /\ LET r == add_to_cart(user_cart, inventory, user_item_code, quantity)
       IN  /\ user_cart' = r.user_cart
           /\ result' = r.raised
           /\ session' = IF r.raised = Ok THEN "Building" ELSE session
    /\ UNCHANGED <<inventory, pc, cart_no, saved>>
    /\ Noted("shell_add_to_cart")

\* purchase_items, choice 3 on a cart that holds something (lines 524-543)
ShellManageCart(manage_item_code, manage_choice, new_qty) ==
    /\ pc = "purchase_items"
    /\ Len(user_cart) > 0
    /\ LET r == manage_cart(user_cart, inventory, manage_item_code, manage_choice,
                            new_qty)
       IN  /\ user_cart' = r.user_cart
           /\ result' = r.raised
    /\ UNCHANGED <<inventory, pc, session, cart_no, saved>>
    /\ Noted("shell_manage_cart")

\* purchase_items, choice 4 on a cart that holds something (lines 524-546);
\* a purchase ends with save_inventory (line 705)
ShellConfirmPurchase(confirm) ==
    /\ pc = "purchase_items"
    /\ Len(user_cart) > 0
    /\ LET r == confirm_purchase(user_cart, inventory, confirm)
       IN  /\ user_cart' = r.user_cart
           /\ inventory' = r.inventory_ref
           /\ saved' = IF r.returned THEN r.inventory_ref ELSE saved
           /\ pc' = AfterConfirm(r.returned)
           /\ session' = IF r.returned THEN "Finalized" ELSE session
    /\ result' = Ok
    /\ UNCHANGED cart_no
    /\ Noted("shell_confirm_purchase")

\* purchase_items, choice 5 answered y (lines 549-553): it returns True and
\* main leaves its loop (lines 176-177); the cart is dropped as it is
ShellExit ==
    /\ pc = "purchase_items"
    /\ pc' = "exited"
    /\ session' = "Abandoned"
    /\ result' = Ok
    /\ UNCHANGED <<inventory, user_cart, cart_no, saved>>
    /\ Noted("shell_exit")

\* main, choice 3 (lines 179-181): save the inventory and leave
MainExit ==
    /\ pc = "main"
    /\ pc' = "exited"
    /\ saved' = inventory
    /\ result' = Ok
    /\ UNCHANGED <<inventory, user_cart, session, cart_no>>
    /\ Noted("main_exit")

\* ------------------------------------------------------- the owner menu
\* load_item_to_machine, lines 297-309: a code that is stocked is offered
\* more quantity; the answer y adds what is typed
add_more_quantity(inv, item_code, quantity_to_add) ==
    [inv EXCEPT ![item_code].Quantity = @ + quantity_to_add]

\* load_item_to_machine, lines 314-344, one round of prompts for a code that
\* is not stocked: a name that is not valid or is taken is asked for again,
\* else the record is inserted
add_new_item(inv, item_code, typed, price, quantity) ==
    LET name == title(strip(typed))
    IN  IF ~ValidName(name) \/ NameTaken(inv, name)
        THEN [inventory_ref |-> inv, raised |-> InvalidArgument]
        ELSE [inventory_ref |->
                 [code \in DOMAIN inv \cup {item_code} |->
                     IF code = item_code
                     THEN [Name |-> Spelt(name), Price |-> price,
                           Quantity |-> quantity]
                     ELSE inv[code]],
              raised |-> Ok]

\* lines 407-421: the interactive adjust_quantity; the quantity comes from
\* input_positive_integer, an unknown code is asked for again
adjust_quantity(inv, item_code, new_quantity) ==
    IF item_code \notin DOMAIN inv
    THEN [inventory_ref |-> inv, raised |-> NotFound]
    ELSE IF new_quantity < 0
    THEN [inventory_ref |-> inv, raised |-> InvalidArgument]
    ELSE [inventory_ref |-> [inv EXCEPT ![item_code].Quantity = new_quantity],
          raised |-> Ok]

\* lines 444-462: the interactive adjust_item_price; a price that is not
\* above 0 and an unknown code are asked for again
adjust_item_price(inv, item_code, new_price) ==
    IF item_code \notin DOMAIN inv
    THEN [inventory_ref |-> inv, raised |-> NotFound]
    ELSE IF new_price <= 0
    THEN [inventory_ref |-> inv, raised |-> InvalidArgument]
    ELSE [inventory_ref |-> [inv EXCEPT ![item_code].Price = new_price],
          raised |-> Ok]

\* load_items, lines 261-269: Done writes the file unless the inventory is
\* empty, in which case it returns without writing
SavedAfterDone(inv, file) == IF DOMAIN inv = {} THEN file ELSE inv

\* bookkeeping of a step of the owner menu: its functions work on the global
\* inventory and are handed no cart, so no snapshot is taken
OwnerNoted(name) ==
    /\ op' = name
    /\ before' = [user_cart |-> <<>>, inventory_ref |-> <<>>]
    /\ retval' = <<>>

\* main, lines 162-168: choice 1 with the right id and password reads the
\* inventory file again and opens the owner menu
OwnerLogin ==
    /\ pc = "main"
    /\ inventory' = saved
    /\ pc' = "load_items"
    /\ result' = Ok
    /\ UNCHANGED <<user_cart, session, cart_no, saved>>
    /\ OwnerNoted("owner_login")

\* what a step of the owner menu does to the state besides the inventory
Owned ==
    /\ pc = "load_items"
    /\ UNCHANGED <<user_cart, pc, session, cart_no, saved>>
    /\ OwnerNoted("load_items")

\* load_items choice 1, for a code that is stocked (lines 297-309); the sum
\* is kept within the largest quantity of the model
OwnerAddQuantity(item_code, quantity_to_add) ==
    /\ item_code \in DOMAIN inventory
    /\ inventory[item_code].Quantity + quantity_to_add <= MaxQty
    /\ inventory' = add_more_quantity(inventory, item_code, quantity_to_add)
    /\ result' = Ok
    /\ Owned

\* load_items choice 1, for a code that is not stocked (lines 314-344)
OwnerAddNewItem(item_code, typed, price, quantity) ==
    /\ item_code \notin DOMAIN inventory
    /\ LET r == add_new_item(inventory, item_code, typed, price, quantity)
       IN  inventory' = r.inventory_ref /\ result' = r.raised
    /\ Owned

\* manage_machine choice 1 (lines 375-380)
OwnerAdjustQuantity(item_code, new_quantity) ==
    /\ DOMAIN inventory # {}
    /\ LET r == adjust_quantity(inventory, item_code, new_quantity)
       IN  inventory' = r.inventory_ref /\ result' = r.raised
    /\ Owned

\* manage_machine choice 2 (lines 382-387)
OwnerRemoveItem(remove_item_code) ==
    /\ remove_item_code \in DOMAIN inventory
    /\ inventory' = remove_items(inventory, remove_item_code)
    /\ result' = Ok
    /\ Owned

\* manage_machine choice 3 (lines 389-394)
OwnerAdjustPrice(item_code, new_price) ==
    /\ DOMAIN inventory # {}
    /\ LET r == adjust_item_price(inventory, item_code, new_price)
       IN  inventory' = r.inventory_ref /\ result' = r.raised
    /\ Owned

\* load_items choice 4 (lines 261-269): back to main
OwnerDone ==
    /\ pc = "load_items"
    /\ pc' = "main"
    /\ saved' = SavedAfterDone(inventory, saved)
    /\ result' = Ok
    /\ UNCHANGED <<inventory, user_cart, session, cart_no>>
    /\ OwnerNoted("owner_done")

\* the quantities a caller of manage_cart passes along with an action: any
\* with adjust; with the other actions, which do not read it, none or one
ManageQtyArgs(action) == IF action = "adjust" THEN OptQtyArgs ELSE {<<>>, <<1>>}

\* the sales ledger is not kept
NoLedger == UNCHANGED <<stocked, sold>>

\* the sales ledger: a purchase that goes through (it empties a cart that
\* held something) adds the cart's units to what was sold
Ledger ==
    /\ UNCHANGED stocked
    /\ sold' = IF /\ op' \in {"confirm_purchase", "shell_confirm_purchase"}
                  /\ Len(user_cart) > 0
                  /\ Len(user_cart') = 0
               THEN [code \in Codes |-> sold[code] + CartQty(user_cart, code)]
               ELSE sold

ShellNext ==
    \/ PurchaseItems /\ NoLedger
    \/ \E user_item_code \in Codes, quantity \in PositiveArgs :
          ShellAddToCart(user_item_code, quantity) /\ NoLedger
    \/ \E manage_item_code \in Codes, manage_choice \in {1, 2},
           new_qty \in PositiveArgs :
          ShellManageCart(manage_item_code, manage_choice, new_qty) /\ NoLedger
    \/ \E confirm \in {"y", "n"} : ShellConfirmPurchase(confirm) /\ NoLedger
    \/ ShellExit /\ NoLedger
    \/ MainExit /\ NoLedger

\* ------------------------------------------------------------ the machine
Init ==
    /\ inventory = [code \in Codes |->
                      [Name |-> ItemName(code), Price |-> 1, Quantity |-> MaxQty]]
    /\ user_cart = <<>>
    /\ op = "none"
    /\ before = [user_cart |-> <<>>, inventory_ref |-> inventory]
    /\ result = Ok
    /\ pc = "main"
    /\ session = "none"
    /\ cart_no = 0
    /\ saved = inventory
    /\ stocked = inventory
    /\ sold = [code \in Codes |-> 0]
    /\ retval = <<>>

AddToCart(item_code, quantity) ==
    LET r == add_to_cart_arg(user_cart, inventory, item_code, quantity)
    IN  /\ user_cart' = r.user_cart
        /\ inventory' = r.inventory_ref
        /\ result' = r.raised
        /\ Called("add_to_cart")

ManageCart(item_code, action, new_quantity) ==
    LET r == manage_cart_arg(user_cart, inventory, item_code, action, new_quantity)
    IN  /\ user_cart' = r.user_cart
        /\ inventory' = r.inventory_ref
        /\ result' = r.raised
        /\ Called("manage_cart")

AdjustQuantity(item_code, new_quantity) ==
    LET r == adjust_quantity_arg(inventory, item_code, new_quantity)
    IN  /\ inventory' = r.inventory_ref
        /\ result' = r.raised
        /\ UNCHANGED user_cart
        /\ Called("adjust_quantity")

AdjustPrice(item_code, new_price) ==
    LET r == adjust_item_price_arg(inventory, item_code, new_price)
    IN  /\ inventory' = r.inventory_ref
        /\ result' = r.raised
        /\ UNCHANGED user_cart
        /\ Called("adjust_price")

\* lines 112-130; the identifier is returned by a call that raised nothing
ConfirmPurchase(uuid4) ==
    LET r == confirm_purchase_arg(user_cart, inventory)
    IN  /\ user_cart' = r.user_cart
        /\ inventory' = r.inventory_ref
        /\ result' = r.raised
        /\ retval' = IF r.raised = Ok THEN <<transaction_id(uuid4)>> ELSE <<>>
        /\ op' = "confirm_purchase"
        /\ before' = [user_cart |-> user_cart, inventory_ref |-> inventory]
        /\ UNCHANGED <<pc, session, cart_no, saved>>

RemoveItem(remove_item_code) ==
    /\ remove_item_code \in DOMAIN inventory
    /\ inventory' = remove_items(inventory, remove_item_code)
    /\ result' = Ok
    /\ UNCHANGED user_cart
    /\ Called("remove_items")

Next ==
    \/ \E item_code \in Codes, quantity \in QtyArgs :
          AddToCart(item_code, quantity) /\ NoLedger
    \/ \E item_code \in Codes, action \in Actions :
          \E new_quantity \in ManageQtyArgs(action) :
              ManageCart(item_code, action, new_quantity) /\ NoLedger
    \/ \E item_code \in Codes, new_quantity \in QtyArgs :
          AdjustQuantity(item_code, new_quantity) /\ NoLedger
    \/ \E item_code \in Codes, new_price \in PriceArgs :
          AdjustPrice(item_code, new_price) /\ NoLedger
    \/ \E uuid4 \in Uuids : ConfirmPurchase(uuid4) /\ NoLedger
    \/ \E remove_item_code \in Codes : RemoveItem(remove_item_code) /\ NoLedger

Spec == Init /\ [][Next]_vars

\* the customer side of the interactive shell, from the start of main
ShellSpec == Init /\ [][ShellNext]_vars

\* the inventories a customer can find: each code stocked at some quantity
\* (0 too, which adjust_quantity allows) or not at all
StartInventories ==
    UNION {[present -> [Name : {"item"}, Price : {1}, Quantity : 0 .. MaxQty]] :
              present \in SUBSET Codes}

CustomerInit ==
    /\ inventory \in {[code \in DOMAIN inv |->
                          [inv[code] EXCEPT !.Name = ItemName(code)]] :
                         inv \in StartInventories}
    /\ user_cart = <<>>
    /\ op = "none"
    /\ before = [user_cart |-> <<>>, inventory_ref |-> inventory]
    /\ result = Ok
    /\ pc = "main"
    /\ session = "none"
    /\ cart_no = 0
    /\ saved = inventory
    /\ stocked = inventory
    /\ sold = [code \in Codes |-> 0]
    /\ retval = <<>>

\* what customers alone can do, through the argument based functions or
\* through the purchase menu of the shell; the owner edits nothing
CustomerNext ==
    \/ \E item_code \in Codes, quantity \in QtyArgs :
          AddToCart(item_code, quantity) /\ Ledger
    \/ \E item_code \in Codes, action \in Actions :
          \E new_quantity \in ManageQtyArgs(action) :
              ManageCart(item_code, action, new_quantity) /\ Ledger
    \/ \E uuid4 \in Uuids : ConfirmPurchase(uuid4) /\ Ledger
    \/ PurchaseItems /\ Ledger
    \/ \E user_item_code \in Codes, quantity \in PositiveArgs :
          ShellAddToCart(user_item_code, quantity) /\ Ledger
    \/ \E manage_item_code \in Codes, manage_choice \in {1, 2},
           new_qty \in PositiveArgs :
          ShellManageCart(manage_item_code, manage_choice, new_qty) /\ Ledger
    \/ \E confirm \in {"y", "n"} : ShellConfirmPurchase(confirm) /\ Ledger
    \/ ShellExit /\ Ledger

CustomerSpec == CustomerInit /\ [][CustomerNext]_vars

\* the whole interactive shell: the owner menu and the purchase menu
MainNext ==
    \/ OwnerLogin /\ NoLedger
    \/ \E item_code \in Codes, quantity_to_add \in PositiveArgs :
          OwnerAddQuantity(item_code, quantity_to_add) /\ NoLedger
    \/ \E item_code \in Codes, typed \in RawNames, price \in Prices,
           quantity \in PositiveArgs :
          OwnerAddNewItem(item_code, typed, price, quantity) /\ NoLedger
    \/ \E item_code \in Codes, new_quantity \in PositiveArgs :
          OwnerAdjustQuantity(item_code, new_quantity) /\ NoLedger
    \/ \E remove_item_code \in Codes : OwnerRemoveItem(remove_item_code) /\ NoLedger
    \/ \E item_code \in Codes, new_price \in PriceArgs :
          OwnerAdjustPrice(item_code, new_price) /\ NoLedger
    \/ OwnerDone /\ NoLedger
    \/ cart_no < MaxSessions /\ PurchaseItems /\ NoLedger
    \/ \E user_item_code \in Codes, quantity \in PositiveArgs :
          ShellAddToCart(user_item_code, quantity) /\ NoLedger
    \/ \E manage_item_code \in Codes, manage_choice \in {1, 2},
           new_qty \in PositiveArgs :
          ShellManageCart(manage_item_code, manage_choice, new_qty) /\ NoLedger
    \/ \E confirm \in {"y", "n"} : ShellConfirmPurchase(confirm) /\ NoLedger
    \/ ShellExit /\ NoLedger
    \/ MainExit /\ NoLedger

MainSpec == Init /\ [][MainNext]_vars

\* ------------------------------------------------------------------ types
TypeOK ==
    /\ DOMAIN inventory \subseteq Codes
    /\ \A code \in DOMAIN inventory :
          /\ inventory[code].Price \in Prices
          /\ inventory[code].Quantity \in Int
    /\ \A i, j \in 1 .. Len(user_cart) :
          user_cart[i].code = user_cart[j].code => i = j
    /\ result \in {Ok, NotFound, InvalidArgument, CapacityExceeded}

\* ======================================================== the properties
\* an entry of a cart whose code the inventory does not hold
Absent(cart, inv, i) == cart[i].code \notin DOMAIN inv

\* an entry of a cart that asks for more than the inventory holds of it
Exceeds(cart, inv, i) ==
    /\ cart[i].code \in DOMAIN inv
    /\ cart[i].Quantity > inv[cart[i].code].Quantity

\* every entry whose code the inventory holds asks for no more than it holds
WithinStock(cart, inv) == \A i \in 1 .. Len(cart) : ~Exceeds(cart, inv, i)

Failed == result # Ok

\* C1: in every reachable state, whatever calls (successful or failing) led
\* to it, every inventory record's quantity is >= 0.
C1_QuantityNeverNegative ==
    \A code \in DOMAIN inventory : inventory[code].Quantity >= 0

\* C1 witness: a purchase asking for more than is stocked was attempted and
\* refused, and a record sits at the boundary quantity 0.
C1_Witness ==
    /\ op = "confirm_purchase"
    /\ result = CapacityExceeded
    /\ \E code \in DOMAIN inventory : inventory[code].Quantity = 0

\* C2 as stated: in every reachable state, every cart entry whose code is
\* still in the inventory has cart quantity <= the inventory quantity.
C2_CartAlwaysWithinStock == WithinStock(user_cart, inventory)

\* C2 amended: every call other than adjust_quantity, successful or failing,
\* that is made when every cart entry is within the stock of its code leaves
\* every cart entry within the stock of its code.
C2_CartWithinStockPreserved ==
    (op # "adjust_quantity" /\ WithinStock(before.user_cart, before.inventory_ref))
        => WithinStock(user_cart, inventory)

\* C2 witness: an item already in the cart was added again up to the whole
\* stock of its code.
C2_Witness ==
    /\ op = "add_to_cart"
    /\ result = Ok
    /\ \E i \in 1 .. Len(before.user_cart) :
          /\ user_cart[i].Quantity > before.user_cart[i].Quantity
          /\ user_cart[i].code \in DOMAIN inventory
          /\ user_cart[i].Quantity = inventory[user_cart[i].code].Quantity

\* C3: when confirm_purchase fails on a cart of N >= 1 entries, the inventory
\* (quantities and records) and the cart (all N entries) are as before.
C3_FailedPurchaseChangesNothing ==
    (op = "confirm_purchase" /\ Failed /\ Len(before.user_cart) >= 1)
        => /\ inventory = before.inventory_ref
           /\ user_cart = before.user_cart

\* C3 witness: a purchase failed on a cart of two entries whose first entry
\* was valid and in stock and whose second entry was the offending one.
C3_Witness ==
    /\ op = "confirm_purchase"
    /\ Failed
    /\ Len(before.user_cart) = 2
    /\ ~Absent(before.user_cart, before.inventory_ref, 1)
    /\ ~Exceeds(before.user_cart, before.inventory_ref, 1)
    /\ \/ Absent(before.user_cart, before.inventory_ref, 2)
       \/ Exceeds(before.user_cart, before.inventory_ref, 2)

\* C4: whenever add_to_cart, manage_cart, adjust_quantity or adjust_price
\* fails, the cart and the inventory equal their values before the call.
C4_FailedCallChangesNothing ==
    (op \in {"add_to_cart", "manage_cart", "adjust_quantity", "adjust_price"} /\ Failed)
        => /\ inventory = before.inventory_ref
           /\ user_cart = before.user_cart

\* C4 witness: a cart adjustment beyond the stock was refused while the cart
\* held the item at a smaller quantity.
C4_Witness ==
    /\ op = "manage_cart"
    /\ result = CapacityExceeded
    /\ Len(before.user_cart) >= 1

\* the first offending entry of a cart in iteration order, 0 when none
FirstOffender(cart, inv) ==
    LET bad == {i \in 1 .. Len(cart) : Absent(cart, inv, i) \/ Exceeds(cart, inv, i)}
    IN  IF bad = {} THEN 0 ELSE CHOOSE i \in bad : \A j \in bad : i <= j

\* C5 as stated: on a non-empty cart confirm_purchase fails with NotFound if
\* some cart code is absent, with CapacityExceeded if some cart quantity
\* exceeds the stock, and succeeds exactly when neither holds.
C5_ErrorByKindAnywhere ==
    (op = "confirm_purchase" /\ Len(before.user_cart) >= 1)
        => LET cart == before.user_cart
               inv == before.inventory_ref
               someAbsent == \E i \in 1 .. Len(cart) : Absent(cart, inv, i)
               someExceeds == \E i \in 1 .. Len(cart) : Exceeds(cart, inv, i)
           IN  /\ someAbsent => result = NotFound
               /\ someExceeds => result = CapacityExceeded
               /\ result = Ok <=> (~someAbsent /\ ~someExceeds)

\* C5 amended: on a non-empty cart confirm_purchase fails with the error of
\* the first offending entry in the cart's order (NotFound if its code is
\* absent, CapacityExceeded if its quantity exceeds the stock) and succeeds
\* exactly when no entry offends.
C5_ErrorOfFirstOffender ==
    (op = "confirm_purchase" /\ Len(before.user_cart) >= 1)
        => LET cart == before.user_cart
               inv == before.inventory_ref
               first == FirstOffender(cart, inv)
           IN  result = IF first = 0 THEN Ok
                        ELSE IF Absent(cart, inv, first) THEN NotFound
                        ELSE CapacityExceeded

\* C5 witness: a purchase whose first entry exceeded the stock and whose
\* second entry's code was gone failed with CapacityExceeded.
C5_Witness ==
    /\ op = "confirm_purchase"
    /\ Len(before.user_cart) = 2
    /\ Exceeds(before.user_cart, before.inventory_ref, 1)
    /\ Absent(before.user_cart, before.inventory_ref, 2)
    /\ result = CapacityExceeded

Purchased == op = "confirm_purchase" /\ result = Ok

\* what a purchase leaves of the stock of the code of entry i of the cart
LeftOf(cart, inv, i) == inv[cart[i].code].Quantity - cart[i].Quantity

\* C6: after a successful confirm_purchase, every code of the cart whose
\* inventory quantity before the call minus the cart quantity is above 0 is
\* still in the inventory, with that quantity and its name and price as before.
C6_RemainderStays ==
    Purchased =>
        \A i \in 1 .. Len(before.user_cart) :
            LET code == before.user_cart[i].code
                left == LeftOf(before.user_cart, before.inventory_ref, i)
            IN  left > 0 =>
                   /\ code \in DOMAIN inventory
                   /\ inventory[code].Quantity = left
                   /\ inventory[code].Name = before.inventory_ref[code].Name
                   /\ inventory[code].Price = before.inventory_ref[code].Price

\* C6 witness: a purchase of two items succeeded; the second one was left
\* above 0 and its inventory price differed from the price in the cart.
C6_Witness ==
    /\ Purchased
    /\ Len(before.user_cart) = 2
    /\ LeftOf(before.user_cart, before.inventory_ref, 2) > 0
    /\ before.inventory_ref[before.user_cart[2].code].Price # before.user_cart[2].Price

\* C7: after every successful confirm_purchase the inventory holds no record
\* with quantity 0.
C7_NoZeroAfterPurchase ==
    Purchased => \A code \in DOMAIN inventory : inventory[code].Quantity # 0

\* C7 witness: a purchase succeeded that sold one item out and found another
\* record, not in the cart, at quantity 0; both are gone.
C7_Witness ==
    /\ Purchased
    /\ \E i \in 1 .. Len(before.user_cart) :
          /\ LeftOf(before.user_cart, before.inventory_ref, i) = 0
          /\ before.user_cart[i].code \notin DOMAIN inventory
    /\ \E code \in DOMAIN before.inventory_ref \ CartCodes(before.user_cart) :
          /\ before.inventory_ref[code].Quantity = 0
          /\ code \notin DOMAIN inventory

\* C8: after every successful confirm_purchase the cart is empty.
C8_CartEmptyAfterPurchase == Purchased => user_cart = <<>>

\* C8 witness: a purchase of a cart of two entries succeeded.
C8_Witness == Purchased /\ Len(before.user_cart) = 2

\* C9: confirm_purchase with an empty cart fails with InvalidArgument and
\* leaves the inventory unchanged, records at quantity 0 included.
C9_EmptyCartRefused ==
    (op = "confirm_purchase" /\ before.user_cart = <<>>)
        => /\ result = InvalidArgument
           /\ inventory = before.inventory_ref
           /\ user_cart = <<>>

\* C9 witness: confirm_purchase was called with an empty cart while the
\* inventory held a record at quantity 0.
C9_Witness ==
    /\ op = "confirm_purchase"
    /\ before.user_cart = <<>>
    /\ \E code \in DOMAIN before.inventory_ref : before.inventory_ref[code].Quantity = 0

\* the effect C10 states for a successful add of quantity of item_code
AddedTo(cart, inv, item_code, quantity, cartAfter) ==
    IF InCart(cart, item_code)
    THEN /\ Len(cartAfter) = Len(cart)
         /\ \A i \in 1 .. Len(cart) :
               /\ cartAfter[i].code = cart[i].code
               /\ cartAfter[i].Name = cart[i].Name
               /\ cartAfter[i].Price = cart[i].Price
               /\ cartAfter[i].Quantity =
                     IF cart[i].code = item_code
                     THEN cart[i].Quantity + quantity
                     ELSE cart[i].Quantity
    ELSE /\ Len(cartAfter) = Len(cart) + 1
         /\ \A i \in 1 .. Len(cart) : cartAfter[i] = cart[i]
         /\ cartAfter[Len(cartAfter)] = [code |-> item_code,
                                         Name |-> inv[item_code].Name,
                                         Price |-> inv[item_code].Price,
                                         Quantity |-> quantity]

\* test_add_to_cart_arg: Water stocked at 10, add 3 and then 4 gives 7
AddThreeThenFour ==
    LET inv == (1 :> [Name |-> "Water", Price |-> 1, Quantity |-> 10])
        first == add_to_cart_arg(<<>>, inv, 1, 3)
        second == add_to_cart_arg(first.user_cart, inv, 1, 4)
    IN  /\ first.raised = Ok /\ first.user_cart[1].Quantity = 3
        /\ second.raised = Ok /\ second.user_cart[1].Quantity = 7
        /\ Len(second.user_cart) = 1

\* C10: a successful add_to_cart(cart, inventory, code, qty) changes only the
\* cart entry of code: an entry already in the cart gets its quantity plus
\* qty, else a new entry is inserted with quantity qty and the name and price
\* the inventory holds for code; the inventory is untouched; 3 then 4 gives 7.
C10_AddAccumulatesOrInserts ==
    [][(op' = "add_to_cart" /\ result' = Ok) =>
          /\ AddThreeThenFour
          /\ \A item_code \in Codes, quantity \in QtyArgs :
                AddToCart(item_code, quantity)
                    => /\ inventory' = inventory
                       /\ AddedTo(user_cart, inventory, item_code, quantity, user_cart')]_vars

\* C10 witness: a successful add raised the quantity of an entry that was
\* already in the cart, while the cart held a second entry.
C10_Witness ==
    /\ op = "add_to_cart"
    /\ result = Ok
    /\ Len(before.user_cart) = 2
    /\ \E i \in 1 .. 2 : user_cart[i].Quantity > before.user_cart[i].Quantity

QuantitySetTo(cart, item_code, quantity, after) ==
    /\ Len(after) = Len(cart)
    /\ \A i \in 1 .. Len(cart) :
          /\ after[i].code = cart[i].code
          /\ after[i].Name = cart[i].Name
          /\ after[i].Price = cart[i].Price
          /\ after[i].Quantity = IF cart[i].code = item_code
                                 THEN quantity
                                 ELSE cart[i].Quantity

\* C12: manage_cart with action adjust on a code in the cart and in the
\* inventory sets the entry's quantity to exactly new_qty (not a delta) when
\* 0 < new_qty <= the quantity the inventory holds at the time of the call,
\* and fails with CapacityExceeded when new_qty exceeds that quantity.
\* Stated of the call made in any reachable state with any such arguments.
C12_AdjustIsAbsolute ==
    \A item_code \in Codes, new_qty \in 1 .. MaxQty :
        (/\ \E i \in 1 .. Len(user_cart) : user_cart[i].code = item_code
         /\ item_code \in DOMAIN inventory)
            => LET r == manage_cart_arg(user_cart, inventory, item_code, "adjust",
                                        <<new_qty>>)
               IN  IF new_qty <= inventory[item_code].Quantity
                   THEN /\ r.raised = Ok
                        /\ QuantitySetTo(user_cart, item_code, new_qty, r.user_cart)
                   ELSE /\ r.raised = CapacityExceeded
                        /\ r.user_cart = user_cart

\* C12 witness: an adjust lowered the quantity of the only entry of the cart
\* (a delta would have raised it) to the whole stock of its code, which was
\* smaller than what the entry held since it was added.
C12_Witness ==
    /\ op = "manage_cart"
    /\ result = Ok
    /\ Len(before.user_cart) = 1
    /\ Len(user_cart) = 1
    /\ user_cart[1].Quantity < before.user_cart[1].Quantity
    /\ user_cart[1].code \in DOMAIN inventory
    /\ user_cart[1].Quantity = inventory[user_cart[1].code].Quantity

\* the cart `after` is the cart `cart` without the entry of item_code, the
\* other entries as they were and in the order they were
EntryDeleted(cart, item_code, after) ==
    /\ Len(after) = Len(cart) - 1
    /\ \A i \in 1 .. Len(after) : after[i].code # item_code
    /\ \A i \in 1 .. Len(cart) :
          cart[i].code # item_code =>
              LET gone == Cardinality({j \in 1 .. i : cart[j].code = item_code})
              IN  after[i - gone] = cart[i]

\* C13: manage_cart with action remove on a code in the cart succeeds
\* whatever the inventory holds for the code (also nothing) and whatever
\* new_qty is passed, deletes exactly that entry and leaves the other entries
\* and the inventory as they were.
\* Stated of the call made in any reachable state with any such arguments.
C13_RemoveIsUnconditional ==
    \A item_code \in Codes, new_quantity \in OptQtyArgs :
        (\E i \in 1 .. Len(user_cart) : user_cart[i].code = item_code)
            => LET r == manage_cart_arg(user_cart, inventory, item_code, "remove",
                                        new_quantity)
               IN  /\ r.raised = Ok
                   /\ r.inventory_ref = inventory
                   /\ EntryDeleted(user_cart, item_code, r.user_cart)

\* C13 witness: the first of two entries was removed from the cart after its
\* code had left the inventory; the second entry is what the cart holds.
C13_Witness ==
    /\ op = "manage_cart"
    /\ result = Ok
    /\ Len(before.user_cart) = 2
    /\ before.user_cart[1].code \notin DOMAIN before.inventory_ref
    /\ user_cart = <<before.user_cart[2]>>

\* C14: manage_cart fails with NotFound whenever code is not in the cart,
\* whatever the action; with code in the cart it fails with InvalidArgument
\* for an action other than remove and adjust, and for adjust when new_qty is
\* missing or <= 0.
\* Stated of the call made in any reachable state with any arguments.
C14_ManageErrors ==
    \A item_code \in Codes, action \in Actions, new_quantity \in OptQtyArgs :
        LET raised == manage_cart_arg(user_cart, inventory, item_code, action,
                                      new_quantity).raised
            inCart == \E i \in 1 .. Len(user_cart) : user_cart[i].code = item_code
        IN  /\ ~inCart => raised = NotFound
            /\ (inCart /\ action \notin {"remove", "adjust"})
                  => raised = InvalidArgument
            /\ (inCart /\ action = "adjust" /\ new_quantity = <<>>)
                  => raised = InvalidArgument
            /\ (inCart /\ action = "adjust" /\ new_quantity # <<>>
                       /\ new_quantity[1] <= 0)
                  => raised = InvalidArgument

\* C14 witness: manage_cart failed with NotFound on a cart that held the
\* other code.
C14_Witness ==
    /\ op = "manage_cart"
    /\ result = NotFound
    /\ Len(user_cart) = 1

\* the inventory `after` is `inv` with the given field of the record of
\* item_code set to value, every other field and record as it was
FieldSetTo(inv, item_code, field, value, after) ==
    /\ DOMAIN after = DOMAIN inv
    /\ \A code \in DOMAIN inv :
          \A f \in {"Name", "Price", "Quantity"} :
              after[code][f] = IF code = item_code /\ f = field
                               THEN value
                               ELSE inv[code][f]

\* C15: adjust_quantity(inventory, code, new_qty) fails with NotFound if code
\* is absent, else with InvalidArgument if new_qty < 0; otherwise (new_qty = 0
\* included) it sets the quantity of code to exactly new_qty whatever it was,
\* and the same call made again leaves the state it reached.
\* Stated of the call made in any reachable state with any arguments.
C15_AdjustQuantityIsAbsolute ==
    \A item_code \in Codes, new_qty \in QtyArgs :
        LET r == adjust_quantity_arg(inventory, item_code, new_qty)
        IN  IF item_code \notin DOMAIN inventory
            THEN r.raised = NotFound /\ r.inventory_ref = inventory
            ELSE IF new_qty < 0
            THEN r.raised = InvalidArgument /\ r.inventory_ref = inventory
            ELSE /\ r.raised = Ok
                 /\ FieldSetTo(inventory, item_code, "Quantity", new_qty,
                               r.inventory_ref)
                 /\ LET again == adjust_quantity_arg(r.inventory_ref, item_code,
                                                     new_qty)
                    IN  again.raised = Ok /\ again.inventory_ref = r.inventory_ref

\* C15 witness: a stocked quantity above 0 was set to 0.
C15_Witness ==
    /\ op = "adjust_quantity"
    /\ result = Ok
    /\ \E code \in DOMAIN inventory :
          /\ inventory[code].Quantity = 0
          /\ before.inventory_ref[code].Quantity > 0

\* C16: adjust_price(inventory, code, new_price) fails with NotFound if code
\* is absent, else with InvalidArgument if new_price <= 0; otherwise it sets
\* the price of code to new_price and changes nothing else: the record's name
\* and quantity, the other records and the cart stay the same.
\* Stated of the call made in any reachable state with any arguments; the
\* function is not handed the cart, and the step that applies it leaves the
\* cart as it was.
C16_AdjustPriceSetsPriceOnly ==
    /\ op = "adjust_price" => user_cart = before.user_cart
    /\ \A item_code \in Codes, new_price \in PriceArgs :
          LET r == adjust_item_price_arg(inventory, item_code, new_price)
          IN  IF item_code \notin DOMAIN inventory
              THEN r.raised = NotFound /\ r.inventory_ref = inventory
              ELSE IF new_price <= 0
              THEN r.raised = InvalidArgument /\ r.inventory_ref = inventory
              ELSE /\ r.raised = Ok
                   /\ FieldSetTo(inventory, item_code, "Price", new_price,
                                 r.inventory_ref)

\* C16 witness: the price of one of two stocked items was changed while the
\* cart held that item.
C16_Witness ==
    /\ op = "adjust_price"
    /\ result = Ok
    /\ DOMAIN inventory = Codes
    /\ \E i \in 1 .. Len(user_cart) :
          inventory[user_cart[i].code].Price
              # before.inventory_ref[user_cart[i].code].Price

\* the price the cart holds for a code it has an entry of
CartPrice(cart, code) == cart[CartIdx(cart, code)].Price

\* C17: the price of a cart entry is a snapshot. An entry a call inserts
\* carries the inventory price of its code at the moment of the call, and an
\* entry that was in the cart before a call and is still there after it has
\* the price it had, whichever call it was (adjust_price, adjust_quantity,
\* a further add_to_cart of the same code, manage_cart adjust).
C17_CartPriceIsSnapshot ==
    \A code \in CartCodes(user_cart) :
        IF InCart(before.user_cart, code)
        THEN CartPrice(user_cart, code) = CartPrice(before.user_cart, code)
        ELSE /\ op = "add_to_cart"
             /\ CartPrice(user_cart, code) = before.inventory_ref[code].Price

\* C17 witness: a further add_to_cart of a code whose inventory price was
\* changed after its entry was inserted; the entry keeps the older price.
C17_Witness ==
    /\ op = "add_to_cart"
    /\ result = Ok
    /\ \E code \in CartCodes(user_cart) :
          /\ InCart(before.user_cart, code)
          /\ CartQty(user_cart, code) > CartQty(before.user_cart, code)
          /\ CartPrice(user_cart, code) # inventory[code].Price

\* C18: add_to_cart and manage_cart, whether they succeed or fail, leave the
\* inventory as it was; among add_to_cart, manage_cart and confirm_purchase
\* only confirm_purchase changes it.
C18_CartCallsLeaveInventory ==
    /\ op \in {"add_to_cart", "manage_cart"} => inventory = before.inventory_ref
    /\ (op \in {"add_to_cart", "manage_cart", "confirm_purchase"}
            /\ inventory # before.inventory_ref)
          => Purchased

\* C18 witness: a manage_cart adjust succeeded on a cart of two entries.
C18_Witness ==
    /\ op = "manage_cart"
    /\ result = Ok
    /\ Len(user_cart) = 2
    /\ user_cart # before.user_cart

\* the calls the shell applies to the session's cart
ShellCartOps == {"shell_add_to_cart", "shell_manage_cart", "shell_confirm_purchase"}

\* the session is over: its purchase went through, or the customer left
Terminal == session \in {"Finalized", "Abandoned"}

\* C19: a purchase session goes Empty -> Building -> Finalized | Abandoned.
\* A confirm that goes through makes the session Finalized; an add, adjust,
\* remove or confirm is only ever applied to the cart of a session that is
\* Empty or Building, and it is that session's own cart; a Finalized session
\* is never Building again (the one step out of it opens the next session on
\* a new, empty cart), and an Abandoned one is left by nothing.
C19_SessionIsTerminal ==
    [][/\ op' \in ShellCartOps
            => /\ session \in {"Empty", "Building"}
               /\ cart_no' = cart_no
               /\ session' \in {session, "Building", "Finalized"}
       /\ (session = "Empty" /\ session' = "Finalized") => FALSE
       /\ (before'.user_cart # <<>> /\ op' = "shell_confirm_purchase"
             /\ user_cart' = <<>>) => session' = "Finalized"
       /\ session = "Finalized"
            => \/ session' = "Finalized" /\ cart_no' = cart_no
                     /\ user_cart' = user_cart
               \/ /\ op' = "purchase_items"
                  /\ session' = "Empty"
                  /\ cart_no' = cart_no + 1
                  /\ user_cart' = <<>>
       /\ session = "Abandoned" => FALSE]_vars

\* C19 witness: after a first session ended with a purchase, a second one
\* built a cart and was abandoned.
C19_Witness ==
    /\ cart_no = 2
    /\ session = "Abandoned"
    /\ Len(user_cart) > 0

\* C20: in every state reached by add_to_cart, manage_cart and
\* confirm_purchase calls from an empty cart (with any owner edits of the
\* inventory in between), every entry of the cart has a quantity above 0.
C20_CartQuantitiesPositive ==
    \A i \in 1 .. Len(user_cart) : user_cart[i].Quantity > 0

\* C20 witness: manage_cart refused a call on a cart of two entries, one of
\* which had been adjusted down to the quantity 1 before.
C20_Witness ==
    /\ op = "manage_cart"
    /\ result = InvalidArgument
    /\ Len(user_cart) = 2
    /\ \E i \in 1 .. Len(user_cart) : user_cart[i].Quantity = 1

\* C22: every confirm_purchase that succeeds returns a transaction
\* identifier that is a string of exactly 8 characters, and a confirm_purchase
\* that fails returns no identifier.
C22_TransactionIdOfEight ==
    op = "confirm_purchase" =>
        IF result = Ok
        THEN /\ Len(retval) = 1
             /\ Len(retval[1]) = 8
             /\ \A i \in 1 .. 8 : retval[1][i] \in HexDigits
        ELSE retval = <<>>

\* C22 witness: a purchase of two entries went through and returned an
\* identifier.
C22_Witness ==
    /\ Purchased
    /\ Len(before.user_cart) = 2
    /\ retval # <<>>

\* the codes the inventory held that the cart did not
NotInCart == DOMAIN before.inventory_ref \ CartCodes(before.user_cart)

\* C23 as stated: a confirm_purchase that succeeds leaves every inventory
\* record whose code is not in the cart as it was: still present, with the
\* same name, price and quantity.
C23_OthersAllUntouched ==
    Purchased =>
        \A code \in NotInCart :
            /\ code \in DOMAIN inventory
            /\ inventory[code] = before.inventory_ref[code]

\* C23 as amended: a confirm_purchase that succeeds leaves every inventory
\* record whose code is not in the cart and whose quantity is not 0 as it
\* was; a record the owner had set to quantity 0 is removed by the sweep
\* although its code is not in the cart.
C23_OthersUntouchedUnlessZero ==
    Purchased =>
        \A code \in NotInCart :
            IF before.inventory_ref[code].Quantity = 0
            THEN code \notin DOMAIN inventory
            ELSE /\ code \in DOMAIN inventory
                 /\ inventory[code] = before.inventory_ref[code]

\* C23 witness: a purchase went through while a record that was not in the
\* cart stood at quantity 0.
C23_Witness ==
    /\ Purchased
    /\ \E code \in NotInCart : before.inventory_ref[code].Quantity = 0

\* C24: in a customer-only session (the cart starts empty, only add_to_cart,
\* manage_cart and confirm_purchase act, the owner edits nothing), every cart
\* code is in the inventory with cart quantity <= inventory quantity, so a
\* confirm_purchase on a cart that holds something raises neither NotFound
\* nor CapacityExceeded, and the unchecked decrement of the interactive
\* confirm_purchase leaves no quantity below 0.
C24_CustomerConfirmNeverFails ==
    /\ \A i \in 1 .. Len(user_cart) :
          /\ user_cart[i].code \in DOMAIN inventory
          /\ user_cart[i].Quantity <= inventory[user_cart[i].code].Quantity
    /\ Len(user_cart) > 0 => confirm_purchase_arg(user_cart, inventory).raised = Ok
    /\ (op = "confirm_purchase" /\ Len(before.user_cart) > 0) => result = Ok
    /\ LET taken == TakeOutFrom(user_cart, inventory, 1)
       IN  \A code \in DOMAIN taken : taken[code].Quantity >= 0
    /\ \A code \in DOMAIN inventory : inventory[code].Quantity >= 0

\* C24 witness: the interactive confirm_purchase took a cart of two entries
\* out of the inventory, and one of the two records is left.
C24_Witness ==
    /\ op = "shell_confirm_purchase"
    /\ Len(before.user_cart) = 2
    /\ Len(user_cart) = 0
    /\ Cardinality(DOMAIN inventory) = 1

\* the quantity an inventory holds of a code, 0 when it has no record of it
QuantityIn(inv, code) == IF code \in DOMAIN inv THEN inv[code].Quantity ELSE 0

\* C25: stock is conserved across purchases. Over any sequence of customer
\* sessions without owner edits, for every code the quantity the inventory
\* started with equals the quantity it holds now (0 when the record was
\* evicted) plus the units of that code in all carts whose purchase went
\* through; failed confirms and abandoned carts add nothing.
C25_StockConserved ==
    \A code \in Codes :
        QuantityIn(stocked, code) = QuantityIn(inventory, code) + sold[code]

\* C25 witness: a purchase went through for a code of which an earlier
\* purchase had already sold units.
C25_Witness ==
    /\ Purchased
    /\ \E code \in Codes :
          /\ CartQty(before.user_cart, code) > 0
          /\ sold[code] > CartQty(before.user_cart, code)

\* C21: after any sequence of owner operations (new item, more quantity,
\* adjust quantity, adjust price, remove item) and purchases, no two
\* inventory records have names that are equal when capitals and small
\* letters are taken alike.
C21_NamesUnique ==
    \A code, other \in DOMAIN inventory :
        code # other => lower(Chars(inventory[code].Name))
                            # lower(Chars(inventory[other].Name))

\* C21 witness: both codes are stocked under names the owner typed for them
\* as new items, which strip() and title() brought into shape.
C21_Witness ==
    /\ DOMAIN inventory = Codes
    /\ inventory[1].Name = "Soda"
    /\ inventory[2].Name = "Tea"

\* C26: on every cart and inventory the interactive shell reaches in its
\* purchase menu, the interactive confirm_purchase answered y and
\* confirm_purchase_arg agree: started on the same cart and inventory they
\* leave the same inventory (same codes, quantities and evictions) and both
\* leave the cart empty, and on a cart that holds something both go through.
C26_ConfirmsAgree ==
    pc = "purchase_items" =>
        LET byArg == confirm_purchase_arg(user_cart, inventory)
            byShell == confirm_purchase(user_cart, inventory, "y")
        IN  /\ byArg.inventory_ref = byShell.inventory_ref
            /\ byArg.user_cart = <<>>
            /\ byShell.user_cart = <<>>
            /\ Len(user_cart) > 0 => byArg.raised = Ok /\ byShell.returned

\* C26 witness: the purchase menu holds a cart of two entries, one that takes
\* the whole stock of its code and one that leaves some.
C26_Witness ==
    /\ pc = "purchase_items"
    /\ Len(user_cart) = 2
    /\ \E i, j \in 1 .. 2 :
          /\ user_cart[i].Quantity = inventory[user_cart[i].code].Quantity
          /\ user_cart[j].Quantity < inventory[user_cart[j].code].Quantity

\* C27 as stated: leaving the owner menu with Done always writes the
\* inventory in memory to the file, so that the next owner login, which reads
\* the file again, finds every edit of the session (removals too).
C27_DonePersists == op = "owner_done" => saved = inventory

\* C28: through the flows of the interactive shell (owner: new item, more
\* quantity, adjust quantity, adjust price, remove item; customer: add to
\* cart, manage cart, confirm purchase) every inventory record has a quantity
\* of at least 1 after each step: the owner cannot set 0, and a purchase that
\* sells an item out deletes its record.
C28_QuantityAtLeastOne ==
    \A code \in DOMAIN inventory : inventory[code].Quantity >= 1

\* C28 witness: a purchase in the shell sold out a code, whose record is
\* gone, after the owner had worked on the inventory.
C28_Witness ==
    /\ op = "shell_confirm_purchase"
    /\ Len(before.user_cart) > 0
    /\ Len(user_cart) = 0
    /\ \E code \in DOMAIN before.inventory_ref :
          /\ code \notin DOMAIN inventory
          /\ before.inventory_ref[code].Name # ItemName(code)

====
